---- MODULE Spec2Model ----
(***************************************************************************)
(* storch: the graph nodes of src/storch/tensor.py (Tensor and its         *)
(* variants DeterministicTensor, IndependentTensor, StochasticTensor) and  *)
(* the baselines of src/storch/method/baseline.py.                         *)
(*                                                                         *)
(* A numeric tensor is modelled by its shape (a sequence of dimension      *)
(* sizes).  Python list objects passed as batch_links live in `heap`, so   *)
(* that two nodes holding the same list object see each other's inserts.   *)
(* A node whose constructor raised stays in `nodes` (built = FALSE) when   *)
(* some list of the program still refers to it.                            *)
(*                                                                         *)
(* A comparison called on a node runs as frames on the interpreter's call  *)
(* stack (`stack`), one step per call and per return.                      *)
(***************************************************************************)
EXTENDS Integers, Sequences, FiniteSets, TLC

VARIABLES
    nodes,              \* every node object still referred to, by identity 1..Len(nodes)
    heap,               \* the batch_links list objects: heap[r] is the content of list r
    cost_tensors,       \* storch.inference._cost_tensors, a list of node identities
    last,               \* the last constructor call: its arguments and how it ended
    calls,              \* the number of constructor calls so far
    exponential_decay,  \* MovingAverageBaseline.exponential_decay, in units of 1/DecayDen
    moving_average,     \* MovingAverageBaseline.moving_average = num / DecayDen^exp
    ma_costs,           \* the reduced costs of the compute_baseline calls so far
    ma_return,          \* what the last MovingAverageBaseline.compute_baseline returned
    ba_last,            \* the last BatchAverageBaseline.compute_baseline call
    stack,              \* the frames of the comparison in progress, the newest last
    cmp                 \* the comparison called last: how far it is and how it ended

vars == <<nodes, heap, cost_tensors, last, calls, exponential_decay, moving_average,
          ma_costs, ma_return, ba_last, stack, cmp>>

graph_vars == <<nodes, heap, cost_tensors, last, calls>>
ma_vars == <<exponential_decay, moving_average, ma_costs, ma_return>>
cmp_vars == <<stack, cmp>>

----------------------------------------------------------------------------
(* Bounds of the model. *)

\* dimension sizes, plate sizes and sample counts range over 0..MaxDim
MaxDim == 2
\* the first constructor call, with every small shape and plate list (SpecCtor)
CtorRank == 2
CtorPlates == 2
\* two constructor calls that may share a list object (SpecAlias)
AliasRank == 1
AliasPlates == 1
AliasCalls == 2
AliasParents == 1
\* constructor calls over scalar tensors, with any parent lists (Spec)
GraphCalls == 2
GraphParents == 1
\* a first node and one constructor call after it, over tensors with and without
\* a first dimension and with any parent list (SpecCost)
CostRank == 1
CostParents == 1
\* the calls of Spec, with room for a node that has two parents (SpecGraph)
DeepCalls == 3
DeepParents == 2
\* the first stochastic node and the compute_baseline calls of the two baselines
\* (SpecBaseline)
BaselineRank == 1
MaxCalls == 3
\* the first node and the comparisons called on it and on their results
\* (SpecCompare); RecursionLimit stands for sys.getrecursionlimit()
CompareRank == 1
ComparePlates == 1
CompareCalls == 2
RecursionLimit == 4

\* exponential_decay = 0.95, the default: 19/20
DefaultDecay == 19
DecayDen == DefaultDecay + 1

Dims == 0 .. MaxDim
PlateNames == {"a", "b"}
SampleNames == PlateNames \cup {"c"}
\* name = None
None == "None"
TensorNames == {None, "c"}
CostNames == {None, "", "c"}
Plates == PlateNames \X Dims
Decays == {0, 10, 18, DefaultDecay, DecayDen}
ReducedCosts == {0, 10, 20}
CostValues == {1, 2, 3}

Shapes(rank) == UNION {[1 .. k -> Dims] : k \in 0 .. rank}
PlateLists(len) == UNION {[1 .. k -> Plates] : k \in 0 .. len}

\* what the callers of one specification may pass to a constructor
CtorEnv == [calls |-> 1, rank |-> CtorRank, plates |-> CtorPlates,
            parents |-> 0, alias |-> FALSE]
AliasEnv == [calls |-> AliasCalls, rank |-> AliasRank, plates |-> AliasPlates,
             parents |-> AliasParents, alias |-> TRUE]
BaselineEnv == [calls |-> 1, rank |-> BaselineRank, plates |-> 0,
                parents |-> 0, alias |-> FALSE]
GraphEnv == [calls |-> GraphCalls, rank |-> 0, plates |-> 0,
             parents |-> GraphParents, alias |-> FALSE]
DeepEnv == [calls |-> DeepCalls, rank |-> 0, plates |-> 0,
            parents |-> DeepParents, alias |-> FALSE]
CostEnv == [calls |-> 2, rank |-> CostRank, plates |-> 0,
            parents |-> CostParents, alias |-> FALSE]
CompareEnv == [calls |-> 1, rank |-> CompareRank, plates |-> ComparePlates,
               parents |-> 0, alias |-> FALSE]

----------------------------------------------------------------------------
(* Helpers. *)

RECURSIVE Pow(_, _)
Pow(b, e) == IF e = 0 THEN 1 ELSE b * Pow(b, e - 1)

RECURSIVE Sum(_)
Sum(s) == IF s = <<>> THEN 0 ELSE Head(s) + Sum(Tail(s))

Range(s) == {s[i] : i \in 1 .. Len(s)}

\* `if not name`
Falsy(name) == name \in {None, ""}

\* the nodes whose constructor returned
Built == {j \in 1 .. Len(nodes) : nodes[j].built}

\* node.batch_links, the content of the list object the node holds
batch_links(j) == heap[nodes[j].batch_links]

----------------------------------------------------------------------------
(* Tensor.__init__ *)

\* a check of plate names that never fires
SeenPlateNever(plate_name, plate_names) == FALSE

\* `if plate_name in plate_names: raise`
SeenPlate(plate_name, plate_names) == plate_name \in plate_names

\* a skip of every plate of size up to 1
IsSingletonOrEmpty(plate_n) == plate_n <= 1

\* `if plate_n == 1: continue`
IsSingleton(plate_n) == plate_n = 1

\* the loop over batch_links: the error it raises, or the batch_len it counts
RECURSIVE CheckPlates(_, _, _, _, _)
CheckPlates(shape, links, i, plate_names, batch_len) ==
    IF i > Len(links)
    THEN [err |-> "none", msg |-> "none", batch_len |-> batch_len]
    ELSE LET plate_name == links[i][1]
             plate_n == links[i][2]
         IN  IF SeenPlate(plate_name, plate_names)
             THEN [err |-> "ValueError", msg |-> "two instances of plate",
                   batch_len |-> batch_len]
             ELSE IF IsSingleton(plate_n)
             THEN CheckPlates(shape, links, i + 1, plate_names \cup {plate_name},
                              batch_len)
             ELSE IF Len(shape) <= batch_len
             THEN [err |-> "ValueError", msg |-> "shape too small",
                   batch_len |-> batch_len]
             ELSE IF ~(shape[batch_len + 1] = plate_n)
             THEN [err |-> "ValueError", msg |-> "plate size",
                   batch_len |-> batch_len]
             ELSE CheckPlates(shape, links, i + 1, plate_names \cup {plate_name},
                              batch_len + 1)

\* the is_cost property: False on Tensor, _is_cost on DeterministicTensor
is_cost(j) == IF nodes[j].kind = "Deterministic" THEN nodes[j].is_cost ELSE FALSE

\* a parent loop without the check
RejectsNoParent(p) == FALSE

\* `if p.is_cost: raise`
RejectsParent(p) == is_cost(p)

\* the loop over parents: the position of the parent it raises at, 0 if none
RECURSIVE FirstCost(_, _)
FirstCost(pargs, i) ==
    IF i > Len(pargs) THEN 0
    ELSE IF RejectsParent(pargs[i][1]) THEN i
    ELSE FirstCost(pargs, i + 1)

\* The whole of Tensor.__init__ on (tensor, parents, batch_links): the error,
\* the attributes set on self, and how many parents were linked before it ended.
TensorInitOutcome(tensor, pargs, links) ==
    LET chk == CheckPlates(tensor, links, 1, {}, 0)
        k == FirstCost(pargs, 1)
    IN  IF chk.err # "none"
        THEN [err |-> chk.err, msg |-> chk.msg, attrs |-> {}, linked |-> 0,
              batch_len |-> 0, event_shape |-> <<>>]
        ELSE IF k > 0
        THEN [err |-> "ValueError", msg |-> "cost parent",
              attrs |-> {"_name", "_tensor", "_parents"}, linked |-> k - 1,
              batch_len |-> 0, event_shape |-> <<>>]
        ELSE [err |-> "none", msg |-> "none",
              attrs |-> {"_name", "_tensor", "_parents", "_children", "batch_len",
                         "event_shape", "batch_links"},
              linked |-> Len(pargs),
              batch_len |-> chk.batch_len,
              event_shape |-> SubSeq(tensor, chk.batch_len + 1, Len(tensor))]

----------------------------------------------------------------------------
(* The constructors of the variants. *)

\* `for plate_name, plate_n in batch_links: if plate_name == name: raise`
NameUsed(links, name) == \E i \in 1 .. Len(links) : links[i][1] = name

\* batch_links.append((name, n))
AppendPlate(links, name, n) == links \o <<(<<name, n>>)>>

\* batch_links.insert(0, (name, n))
InsertPlate(links, name, n) == <<(<<name, n>>)>> \o links

\* `if is_cost`
RegistersAlways(cost, grad) == cost

\* `if is_cost and torch.is_grad_enabled()`
Registers(cost, grad) == cost /\ grad

\* `if not name: raise`, inside the branch that registers the cost node
NameMissing(name) == Falsy(name)

TensorOutcome(tensor, pargs, links) ==
    LET base == TensorInitOutcome(tensor, pargs, links)
    IN  [err |-> base.err, msg |-> base.msg, attrs |-> base.attrs,
         linked |-> base.linked, batch_len |-> base.batch_len,
         event_shape |-> base.event_shape, links |-> links, n |-> 0,
         registered |-> FALSE]

DeterministicOutcome(tensor, pargs, links, cost, grad, name) ==
    LET base == TensorOutcome(tensor, pargs, links)
    IN  IF base.err # "none" THEN base
        ELSE IF ~Registers(cost, grad)
        THEN [base EXCEPT !.attrs = @ \cup {"_is_cost"}]
        ELSE IF NameMissing(name)
        THEN [base EXCEPT !.attrs = @ \cup {"_is_cost"}, !.registered = TRUE,
                          !.err = "ValueError", !.msg = "cost node without a name"]
        ELSE [base EXCEPT !.attrs = @ \cup {"_is_cost"}, !.registered = TRUE]

IndependentOutcome(tensor, pargs, links, name) ==
    IF Len(tensor) = 0
    THEN [err |-> "IndexError", msg |-> "tensor.shape[0]", attrs |-> {}, linked |-> 0,
          batch_len |-> 0, event_shape |-> <<>>, links |-> links, n |-> 0,
          registered |-> FALSE]
    ELSE IF NameUsed(links, name)
    THEN [err |-> "ValueError", msg |-> "name already used", attrs |-> {},
          linked |-> 0, batch_len |-> 0, event_shape |-> <<>>, links |-> links,
          n |-> 0, registered |-> FALSE]
    ELSE LET n == tensor[1]
             links1 == InsertPlate(links, name, n)
             base == TensorOutcome(tensor, pargs, links1)
         IN  IF base.err # "none" THEN base
             ELSE [base EXCEPT !.attrs = @ \cup {"n"}, !.n = n]

StochasticOutcome(tensor, pargs, links, n, name) ==
    IF NameUsed(links, name)
    THEN [err |-> "ValueError", msg |-> "name already used", attrs |-> {},
          linked |-> 0, batch_len |-> 0, event_shape |-> <<>>, links |-> links,
          n |-> 0, registered |-> FALSE]
    ELSE LET links1 == InsertPlate(links, name, n)
             base == TensorOutcome(tensor, pargs, links1)
         IN  IF base.err # "none"
             THEN [base EXCEPT !.attrs = @ \cup {"n", "distribution"}, !.n = n]
             ELSE [base EXCEPT !.attrs = @ \cup {"n", "distribution", "sampling_method",
                                                "_requires_grad", "_accum_grads",
                                                "_grad"},
                               !.n = n]

----------------------------------------------------------------------------
(* What a caller may pass. *)

\* parents, each with the answer has_backwards_path(self, p) will give for it
ParentArgs(E) ==
    UNION {[1 .. k -> Built \X BOOLEAN] : k \in 0 .. E.parents}

\* batch_links: a new list (ref 0), or the list object a built node holds, or a
\* copy of it (ref 0 again)
ListArgs(E) ==
    {[ref |-> 0, links |-> l] : l \in PlateLists(E.plates)}
    \cup (IF E.alias
          THEN {[ref |-> nodes[j].batch_links, links |-> batch_links(j)] : j \in Built}
               \cup {[ref |-> 0, links |-> batch_links(j)] : j \in Built}
          ELSE {})

\* The state after a constructor call that ended as outcome o.  The object self
\* survives the call when the call returned it or when a children list or the
\* registry got hold of it; a new list survives when such an object holds it.
Construct(kind, tensor, pargs, larg, name, cost, grad, n, o) ==
    LET self == Len(nodes) + 1
        ok == o.err = "none"
        retained == ok \/ o.linked > 0 \/ o.registered
        holds == retained /\ "batch_links" \in o.attrs
        ref == IF larg.ref # 0 THEN larg.ref ELSE Len(heap) + 1
        linked == SubSeq(pargs, 1, o.linked)
        gained(j) == LET mine == SelectSeq(linked, LAMBDA e : e[1] = j)
                     IN  [i \in 1 .. Len(mine) |-> <<self, mine[i][2]>>]
        new == [kind |-> kind, name |-> name, tensor |-> tensor,
                parents |-> linked, children |-> <<>>,
                batch_len |-> o.batch_len, event_shape |-> o.event_shape,
                batch_links |-> IF holds THEN ref ELSE 0,
                is_cost |-> cost /\ "_is_cost" \in o.attrs,
                n |-> o.n, attrs |-> o.attrs, built |-> ok]
    IN  /\ nodes' = IF retained
                    THEN Append([j \in 1 .. Len(nodes) |->
                                   [nodes[j] EXCEPT !.children = @ \o gained(j)]],
                                new)
                    ELSE nodes
        /\ heap' = IF larg.ref # 0 THEN [heap EXCEPT ![larg.ref] = o.links]
                   ELSE IF holds THEN Append(heap, o.links)
                   ELSE heap
        /\ cost_tensors' = IF o.registered THEN Append(cost_tensors, self)
                           ELSE cost_tensors
        /\ last' = [op |-> kind, ok |-> ok, err |-> o.err, msg |-> o.msg,
                    tensor |-> tensor, parents |-> pargs, links |-> larg.links,
                    ref |-> larg.ref, name |-> name, is_cost |-> cost,
                    grad |-> grad, n |-> n, node |-> IF retained THEN self ELSE 0]
        /\ calls' = calls + 1
        /\ UNCHANGED <<ma_vars, ba_last>>

\* Tensor(tensor, parents, batch_links, name)
TensorInit(E) ==
    /\ calls < E.calls
    /\ \E tensor \in Shapes(E.rank), pargs \in ParentArgs(E), larg \in ListArgs(E),
          name \in TensorNames :
          Construct("Tensor", tensor, pargs, larg, name, FALSE, FALSE, 0,
                    TensorOutcome(tensor, pargs, larg.links))
    /\ UNCHANGED cmp_vars

\* DeterministicTensor(tensor, parents, batch_links, is_cost, name), under either
\* setting of torch.is_grad_enabled()
DeterministicInit(E) ==
    /\ calls < E.calls
    /\ \E tensor \in Shapes(E.rank), pargs \in ParentArgs(E), larg \in ListArgs(E),
          name \in CostNames, cost \in BOOLEAN, grad \in BOOLEAN :
          Construct("Deterministic", tensor, pargs, larg, name, cost, grad, 0,
                    DeterministicOutcome(tensor, pargs, larg.links, cost, grad, name))
    /\ UNCHANGED cmp_vars

\* IndependentTensor(tensor, parents, batch_links, name)
IndependentInit(E) ==
    /\ calls < E.calls
    /\ \E tensor \in Shapes(E.rank), pargs \in ParentArgs(E), larg \in ListArgs(E),
          name \in SampleNames :
          Construct("Independent", tensor, pargs, larg, name, FALSE, FALSE, 0,
                    IndependentOutcome(tensor, pargs, larg.links, name))
    /\ UNCHANGED cmp_vars

\* StochasticTensor(tensor, parents, sampling_method, batch_links, distribution,
\*                  requires_grad, n, name)
StochasticInit(E) ==
    /\ calls < E.calls
    /\ \E tensor \in Shapes(E.rank), pargs \in ParentArgs(E), larg \in ListArgs(E),
          name \in SampleNames, n \in Dims :
          Construct("Stochastic", tensor, pargs, larg, name, FALSE, FALSE, n,
                    StochasticOutcome(tensor, pargs, larg.links, n, name))
    /\ UNCHANGED cmp_vars

----------------------------------------------------------------------------
(* Tensor._walk *)

\* expand_fn(v): `p._parents` for walk_parents, `p._children` for walk_children
Expand(which, v) == IF which = "_parents" THEN nodes[v].parents ELSE nodes[v].children

\* `if d or not only_differentiable`, over the pairs expand_fn(v) gives
Followed(edges, only_differentiable) ==
    LET kept == SelectSeq(edges, LAMBDA e : e[2] \/ ~only_differentiable)
    IN  [i \in 1 .. Len(kept) |-> kept[i][1]]

\* the depth-first branch: S is the stack, its top at the end
RECURSIVE WalkDepthFirst(_, _, _, _, _, _)
WalkDepthFirst(S, visited, yielded, which, only_differentiable, repeat_visited) ==
    IF S = <<>> THEN [yielded |-> yielded, err |-> "none"]
    ELSE LET v == S[Len(S)]
             rest == SubSeq(S, 1, Len(S) - 1)
         IN  IF repeat_visited \/ v \notin visited
             THEN IF which \notin nodes[v].attrs
                  THEN [yielded |-> Append(yielded, v), err |-> "AttributeError"]
                  ELSE WalkDepthFirst(
                           rest \o Followed(Expand(which, v), only_differentiable),
                           visited \cup {v}, Append(yielded, v), which,
                           only_differentiable, repeat_visited)
             ELSE WalkDepthFirst(rest, visited, yielded, which, only_differentiable,
                                 repeat_visited)

\* the inner loop of the breadth-first branch over the pairs of expand_fn(v)
RECURSIVE Enqueue(_, _, _, _, _)
Enqueue(edges, queue, visited, only_differentiable, repeat_visited) ==
    IF edges = <<>> THEN [queue |-> queue, visited |-> visited]
    ELSE LET w == Head(edges)[1]
             d == Head(edges)[2]
         IN  IF (repeat_visited \/ w \notin visited) /\ (d \/ ~only_differentiable)
             THEN Enqueue(Tail(edges), Append(queue, w), visited \cup {w},
                          only_differentiable, repeat_visited)
             ELSE Enqueue(Tail(edges), queue, visited, only_differentiable,
                          repeat_visited)

\* the breadth-first branch
RECURSIVE WalkBreadthFirst(_, _, _, _, _, _)
WalkBreadthFirst(queue, visited, yielded, which, only_differentiable, repeat_visited) ==
    IF queue = <<>> THEN [yielded |-> yielded, err |-> "none"]
    ELSE LET v == Head(queue)
         IN  IF which \notin nodes[v].attrs
             THEN [yielded |-> Append(yielded, v), err |-> "AttributeError"]
             ELSE LET q == Enqueue(Expand(which, v), Tail(queue), visited,
                                   only_differentiable, repeat_visited)
                  IN  WalkBreadthFirst(q.queue, q.visited, Append(yielded, v), which,
                                       only_differentiable, repeat_visited)

\* list(self._walk(expand_fn, depth_first, only_differentiable, repeat_visited)):
\* the nodes yielded, in order, and the error that ended the iteration, if any
Walk(self, which, depth_first, only_differentiable, repeat_visited) ==
    IF depth_first
    THEN WalkDepthFirst(<<self>>, {}, <<>>, which, only_differentiable, repeat_visited)
    ELSE WalkBreadthFirst(<<self>>, {self}, <<>>, which, only_differentiable,
                          repeat_visited)

walk_parents(self, depth_first, only_differentiable, repeat_visited) ==
    Walk(self, "_parents", depth_first, only_differentiable, repeat_visited)

walk_children(self, depth_first, only_differentiable, repeat_visited) ==
    Walk(self, "_children", depth_first, only_differentiable, repeat_visited)

----------------------------------------------------------------------------
(* The baselines. *)

\* (1 - decay) * moving_average + decay * avg_cost: the weights exchanged
MovingAverageSwapped(decay, avg, avg_cost) ==
    [num |-> (DecayDen - decay) * avg.num + decay * avg_cost * Pow(DecayDen, avg.exp),
     exp |-> avg.exp + 1]

\* decay * moving_average + (1 - decay) * avg_cost, on num / DecayDen^exp
MovingAverage(decay, avg, avg_cost) ==
    [num |-> decay * avg.num + (DecayDen - decay) * avg_cost * Pow(DecayDen, avg.exp),
     exp |-> avg.exp + 1]

\* MovingAverageBaseline.compute_baseline(tensor, cost_node), where
\* storch.reduce_plates(cost_node) gives avg_cost
MovingAverageCompute ==
    /\ Len(ma_costs) < MaxCalls
    /\ \E avg_cost \in ReducedCosts :
          /\ moving_average' = MovingAverage(exponential_decay, moving_average, avg_cost)
          /\ ma_return' = moving_average'
          /\ ma_costs' = Append(ma_costs, avg_cost)
    /\ UNCHANGED <<exponential_decay, graph_vars, ba_last, cmp_vars>>

\* `if tensor.n == 1: raise`
SingleSample(n) == n = 1

\* BatchAverageBaseline.compute_baseline(tensor, costs) on a stochastic node and
\* one cost per sample of its plate: (sum_costs - costs) / (tensor.n - 1)
BatchAverage(n, costs) ==
    IF SingleSample(n)
    THEN [called |-> TRUE, n |-> n, err |-> "ValueError", num |-> <<>>, den |-> 0]
    ELSE [called |-> TRUE, n |-> n, err |-> "none",
          num |-> [i \in 1 .. Len(costs) |-> Sum(costs) - costs[i]], den |-> n - 1]

BatchAverageCompute ==
    /\ \E t \in Built :
          /\ nodes[t].kind = "Stochastic"
          /\ \E costs \in [1 .. nodes[t].n -> CostValues] :
                ba_last' = BatchAverage(nodes[t].n, costs)
    /\ UNCHANGED <<graph_vars, ma_vars, cmp_vars>>

----------------------------------------------------------------------------
(* The comparison methods of Tensor. *)

\* the comparison methods the body of class Tensor defines (Tensor.__dict__)
TensorDict == {"__eq__", "eq", "__ge__", "__gt__", "__le__", "__lt__", "ne"}

\* dir(torch.Tensor): the same names, and lt for one that Tensor does not define
TorchDict == TensorDict \cup {"lt"}

\* the methods an operator reaches through the type, not through __getattribute__
MagicMethods == {"__eq__", "__ge__", "__gt__", "__le__", "__lt__"}

\* the methods under `@storch.deterministic`: every one of TensorDict but eq
Decorated(name) == name \in TensorDict \ {"eq"}

\* Tensor.__getattribute__(self, name): the attribute of torch.Tensor wrapped by
\* _self_deterministic, or what super().__getattribute__(name) finds
GetAttribute(name) ==
    IF name \notin TensorDict /\ name \in TorchDict
    THEN "_self_deterministic"
    ELSE "super"

\* The frame that calling method `name` on `self` enters; self = 0 is a numeric
\* tensor (node._tensor), whose methods are those of torch.Tensor.
Callee(name, self) ==
    IF self = 0
    THEN [fn |-> name, code |-> "torch", self |-> 0, inner |-> "none",
          called |-> FALSE]
    ELSE IF name \notin MagicMethods /\ GetAttribute(name) = "_self_deterministic"
    THEN [fn |-> name, code |-> "wrapper", self |-> self, inner |-> "torch",
          called |-> FALSE]
    ELSE IF Decorated(name)
    THEN [fn |-> name, code |-> "wrapper", self |-> self, inner |-> "Tensor",
          called |-> FALSE]
    ELSE [fn |-> name, code |-> "body", self |-> self, inner |-> "none",
          called |-> FALSE]

Top == stack[Len(stack)]
Below == SubSeq(stack, 1, Len(stack) - 1)

\* node.<name>(other), or the operator of a magic method, with a plain number as
\* other, called by the program on a built node
CallComparison ==
    /\ stack = <<>>
    /\ cmp.count < CompareCalls
    /\ \E j \in Built, name \in TorchDict :
          /\ stack' = <<Callee(name, j)>>
          /\ cmp' = [method |-> name, node |-> j, numeric |-> 0, entered |-> 1,
                     status |-> "running", count |-> cmp.count + 1]
    /\ UNCHANGED <<graph_vars, ma_vars, ba_last>>

\* the wrapper of storch.deterministic and of _self_deterministic calls the
\* function it wraps on self._tensor, with graph tracking suspended
WrapperCall ==
    /\ stack # <<>>
    /\ Top.code = "wrapper"
    /\ ~Top.called
    /\ stack' = Append([stack EXCEPT ![Len(stack)].called = TRUE],
                       IF Top.inner = "torch"
                       THEN Callee(Top.fn, 0)
                       ELSE [fn |-> Top.fn, code |-> "body", self |-> 0,
                             inner |-> "none", called |-> FALSE])
    /\ UNCHANGED <<graph_vars, ma_vars, ba_last, cmp>>

\* the body of a comparison method of Tensor, `return self.<name>(other)`: the
\* call it makes, or the RecursionError of a stack that is full
BodyCall ==
    /\ stack # <<>>
    /\ Top.code = "body"
    /\ ~Top.called
    /\ IF Len(stack) >= RecursionLimit
       THEN /\ stack' = <<>>
            /\ cmp' = [cmp EXCEPT !.status = "RecursionError"]
       ELSE /\ stack' = Append([stack EXCEPT ![Len(stack)].called = TRUE],
                               Callee(Top.fn, Top.self))
            /\ cmp' = [cmp EXCEPT !.entered =
                          IF Top.self = cmp.node THEN @ + 1 ELSE @]
    /\ UNCHANGED <<graph_vars, ma_vars, ba_last>>

\* torch.Tensor.<name>(tensor, other): the comparison of the numeric tensor
NumericCompare ==
    /\ stack # <<>>
    /\ Top.code = "torch"
    /\ stack' = Below
    /\ cmp' = [cmp EXCEPT !.numeric = @ + 1]
    /\ UNCHANGED <<graph_vars, ma_vars, ba_last>>

\* the body returns what its call returned
BodyReturn ==
    /\ stack # <<>>
    /\ Top.code = "body"
    /\ Top.called
    /\ stack' = Below
    /\ cmp' = [cmp EXCEPT !.status = IF Below = <<>> THEN "returned" ELSE @]
    /\ UNCHANGED <<graph_vars, ma_vars, ba_last>>

\* the wrapper makes the result a DeterministicTensor that has self as its
\* parent and the plates of self
WrapperReturn ==
    /\ stack # <<>>
    /\ Top.code = "wrapper"
    /\ Top.called
    /\ \E d \in BOOLEAN :
          LET self == Top.self
              tensor == nodes[self].tensor
              pargs == <<(<<self, d>>)>>
              larg == [ref |-> 0, links |-> batch_links(self)]
              o == DeterministicOutcome(tensor, pargs, larg.links, FALSE, FALSE,
                                        Top.fn)
          IN  /\ Construct("Deterministic", tensor, pargs, larg, Top.fn, FALSE,
                           FALSE, 0, o)
              /\ stack' = IF o.err = "none" THEN Below ELSE <<>>
              /\ cmp' = [cmp EXCEPT !.status =
                            IF o.err # "none" THEN o.err
                            ELSE IF Below = <<>> THEN "returned" ELSE @]

----------------------------------------------------------------------------
(* The specifications. *)

InitGraph ==
    /\ nodes = <<>>
    /\ heap = <<>>
    /\ cost_tensors = <<>>
    /\ calls = 0
    /\ last = [op |-> "none", ok |-> TRUE, err |-> "none", msg |-> "none",
               tensor |-> <<>>, parents |-> <<>>, links |-> <<>>, ref |-> 0,
               name |-> None, is_cost |-> FALSE, grad |-> FALSE, n |-> 0, node |-> 0]
    /\ ba_last = [called |-> FALSE, n |-> 0, err |-> "none", num |-> <<>>, den |-> 0]
    /\ stack = <<>>
    /\ cmp = [method |-> "none", node |-> 0, numeric |-> 0, entered |-> 0,
              status |-> "none", count |-> 0]

\* MovingAverageBaseline(exponential_decay)
InitBaseline(decay) ==
    /\ exponential_decay = decay
    /\ moving_average = [num |-> 0, exp |-> 0]
    /\ ma_costs = <<>>
    /\ ma_return = [num |-> 0, exp |-> 0]

Init == InitGraph /\ InitBaseline(DefaultDecay)

\* node construction over scalar tensors, with any parents
Next ==
    \/ TensorInit(GraphEnv)
    \/ DeterministicInit(GraphEnv)
    \/ IndependentInit(GraphEnv)
    \/ StochasticInit(GraphEnv)

Spec == Init /\ [][Next]_vars

\* a node of any small shape and one construction that may have it as a parent
NextCost ==
    \/ TensorInit(CostEnv)
    \/ DeterministicInit(CostEnv)
    \/ IndependentInit(CostEnv)
    \/ StochasticInit(CostEnv)

SpecCost == Init /\ [][NextCost]_vars

\* the calls of Spec with one call more and longer parent lists
NextGraph ==
    \/ TensorInit(DeepEnv)
    \/ DeterministicInit(DeepEnv)
    \/ IndependentInit(DeepEnv)
    \/ StochasticInit(DeepEnv)

SpecGraph == Init /\ [][NextGraph]_vars

\* the first node of a program, from any small shape and plate list
NextCtor ==
    \/ TensorInit(CtorEnv)
    \/ DeterministicInit(CtorEnv)
    \/ IndependentInit(CtorEnv)
    \/ StochasticInit(CtorEnv)

SpecCtor == Init /\ [][NextCtor]_vars

\* two nodes, the second possibly built from the list object of the first
NextAlias ==
    \/ TensorInit(AliasEnv)
    \/ DeterministicInit(AliasEnv)
    \/ IndependentInit(AliasEnv)
    \/ StochasticInit(AliasEnv)

SpecAlias == Init /\ [][NextAlias]_vars

\* one moving-average baseline of any decay, one batch-average baseline and one
\* stochastic node for them
InitAnyDecay == InitGraph /\ \E decay \in Decays : InitBaseline(decay)

NextBaseline ==
    \/ StochasticInit(BaselineEnv)
    \/ MovingAverageCompute
    \/ BatchAverageCompute

SpecBaseline == InitAnyDecay /\ [][NextBaseline]_vars

\* the first node of a program and the comparisons called on it
NextCompare ==
    \/ TensorInit(CompareEnv)
    \/ DeterministicInit(CompareEnv)
    \/ IndependentInit(CompareEnv)
    \/ StochasticInit(CompareEnv)
    \/ CallComparison
    \/ WrapperCall
    \/ BodyCall
    \/ NumericCompare
    \/ BodyReturn
    \/ WrapperReturn

SpecCompare == Init /\ [][NextCompare]_vars

----------------------------------------------------------------------------
(* The claims. *)

\* no two entries of a plate list share a name
Distinct(links) ==
    \A i, j \in 1 .. Len(links) : i # j => links[i][1] # links[j][1]

\* some parent of the call is a cost node
HasCostParent(pargs) == \E i \in 1 .. Len(pargs) : is_cost(pargs[i][1])

\* the plates of a list whose size satisfies Counts, in list order
PlatesWhere(links, Counts(_)) == SelectSeq(links, LAMBDA plate : Counts(plate[2]))

\* the k-th plate of m equals the k-th leading dimension of shape
LeadingDims(m, shape) ==
    /\ Len(m) <= Len(shape)
    /\ \A k \in 1 .. Len(m) : m[k][2] = shape[k]

\* no cost node has a child: its children list is empty and no node has it as a
\* parent
CostNodesChildless ==
    \A j \in 1 .. Len(nodes) :
        /\ nodes[j].is_cost => nodes[j].children = <<>>
        /\ \A i \in 1 .. Len(nodes[j].parents) : ~is_cost(nodes[j].parents[i][1])

\* C1 as stated: a call of any of the four constructors with a cost node among
\* its parents fails with a validation error (ValueError), and no cost node ever
\* has a child.
CostParentIsValidationError ==
    /\ (last.op # "none" /\ HasCostParent(last.parents)) =>
          ~last.ok /\ last.err = "ValueError"
    /\ CostNodesChildless

\* C1 amended: a constructor call with a cost node among its parents fails, with
\* a ValueError (of the parent loop or of an earlier validation), except that
\* IndependentTensor on a tensor without dimensions fails before any validation
\* with the IndexError of tensor.shape[0]; and no cost node ever has a child: its
\* children list is empty and no node has it as a parent.
CostNodesHaveNoChildren ==
    /\ (last.op # "none" /\ HasCostParent(last.parents)) =>
          /\ ~last.ok
          /\ last.err = IF last.op = "Independent" /\ last.tensor = <<>>
                        THEN "IndexError" ELSE "ValueError"
    /\ CostNodesChildless

\* C1 witness: an IndependentTensor over a tensor with a first dimension and with
\* a cost node as its parent was refused at that parent, and the cost node is
\* still childless.
CostParentRefused ==
    /\ last.op = "Independent" /\ ~last.ok /\ last.msg = "cost parent"
    /\ Len(last.tensor) = 1
    /\ Len(last.parents) = 1
    /\ is_cost(last.parents[1][1])
    /\ nodes[last.parents[1][1]].children = <<>>

\* C2 as stated: a DeterministicTensor with is_cost true and no name (None or
\* empty) fails, whether gradient tracking is enabled or not.
CostNodeAlwaysNeedsName ==
    (last.op = "Deterministic" /\ last.is_cost /\ Falsy(last.name)) => ~last.ok

\* C2 amended: a DeterministicTensor with is_cost true and no name fails with a
\* ValueError when gradient tracking is enabled; with gradient tracking disabled
\* the name is not looked at: the call succeeds exactly when its plates fit the
\* tensor and no parent is a cost node.
CostNodeNeedsNameUnderGrad ==
    (last.op = "Deterministic" /\ last.is_cost /\ Falsy(last.name)) =>
        IF last.grad
        THEN ~last.ok /\ last.err = "ValueError"
        ELSE last.ok <=>
                /\ ~HasCostParent(last.parents)
                /\ Distinct(last.links)
                /\ LeadingDims(PlatesWhere(last.links, LAMBDA n : n # 1), last.tensor)

\* C2 witness: an unnamed cost node was built with gradient tracking disabled.
UnnamedCostNodeBuilt ==
    /\ last.op = "Deterministic" /\ last.is_cost /\ last.name = None
    /\ ~last.grad /\ last.ok
    /\ nodes[last.node].is_cost

\* C3 as stated: with distinct plate names (and no cost node among the parents),
\* Tensor construction succeeds exactly when the k-th plate of size > 1 equals
\* the k-th leading dimension; then batch_len is the number of plates of size > 1
\* and event_shape the rest of the shape.
PlatesOverOneFitShape ==
    (last.op = "Tensor" /\ Distinct(last.links) /\ ~HasCostParent(last.parents)) =>
        LET m == PlatesWhere(last.links, LAMBDA n : n > 1)
        IN  /\ last.ok <=> LeadingDims(m, last.tensor)
            /\ last.ok =>
                  /\ nodes[last.node].batch_len = Len(m)
                  /\ nodes[last.node].event_shape =
                        SubSeq(last.tensor, Len(m) + 1, Len(last.tensor))

\* C3 amended: the same with the plates of size other than 1 in place of the
\* plates of size > 1 (an empty plate, of size 0, takes a dimension of length 0).
PlatesNotOneFitShape ==
    (last.op = "Tensor" /\ Distinct(last.links) /\ ~HasCostParent(last.parents)) =>
        LET m == PlatesWhere(last.links, LAMBDA n : n # 1)
        IN  /\ last.ok <=> LeadingDims(m, last.tensor)
            /\ last.ok =>
                  /\ nodes[last.node].batch_len = Len(m)
                  /\ nodes[last.node].event_shape =
                        SubSeq(last.tensor, Len(m) + 1, Len(last.tensor))

\* C3 witness: a Tensor was built over a singleton plate followed by a plate of
\* size 2, on a tensor with one event dimension.
SingletonPlateElided ==
    /\ last.op = "Tensor" /\ last.ok
    /\ Len(last.links) = 2 /\ last.links[1][2] = 1 /\ last.links[2][2] = 2
    /\ Len(last.tensor) = 2
    /\ nodes[last.node].batch_len = 1
    /\ Len(nodes[last.node].event_shape) = 1

\* C4: a constructor call on a plate list with a repeated name fails, an
\* Independent or Stochastic call whose name is in the list fails, and no built
\* node holds two plates of the same name.
PlateNamesUnique ==
    /\ (last.op # "none" /\ ~Distinct(last.links)) => ~last.ok
    /\ (last.op \in {"Independent", "Stochastic"} /\ NameUsed(last.links, last.name))
          => ~last.ok /\ last.err # "none"
    /\ \A j \in Built : Distinct(batch_links(j))

\* C4 witness: a Tensor call on a list naming one plate twice, whose sizes fit
\* the tensor, was refused.
RepeatedPlateRefused ==
    /\ last.op = "Tensor" /\ ~last.ok /\ last.msg = "two instances of plate"
    /\ Len(last.links) = 2 /\ last.links[1] = last.links[2]
    /\ last.tensor = <<last.links[1][2], last.links[2][2]>>

\* C5: an IndependentTensor (plate size: the first dimension of its tensor) or a
\* StochasticTensor (plate size: n) named P built from the list L holds (P, size)
\* followed by L.
NewPlateFirst ==
    (last.op \in {"Independent", "Stochastic"} /\ last.ok) =>
        batch_links(last.node) =
            <<(<<last.name,
                 IF last.op = "Independent" THEN last.tensor[1] ELSE last.n>>)>>
            \o last.links

\* C5 witness: a plate-introducing node was built from a list of two plates.
NewPlateBeforeTwo ==
    /\ last.op \in {"Independent", "Stochastic"} /\ last.ok
    /\ Len(last.links) = 2
    /\ Len(batch_links(last.node)) = 3

\* the nodes reachable from the set S along the edges of `which`
RECURSIVE Reachable(_, _, _)
Reachable(S, which, only_differentiable) ==
    LET more == {w \in 1 .. Len(nodes) :
                    \E v \in S : \E i \in 1 .. Len(Expand(which, v)) :
                        /\ Expand(which, v)[i][1] = w
                        /\ Expand(which, v)[i][2] \/ ~only_differentiable}
    IN  IF more \subseteq S THEN S ELSE Reachable(S \cup more, which, only_differentiable)

\* the walk w ended normally and yielded each node of R once and nothing else
YieldsOnce(w, R) ==
    /\ w.err = "none"
    /\ Range(w.yielded) = R
    /\ Len(w.yielded) = Cardinality(R)

\* C6: with repeat_visited disabled, walk_parents and walk_children from any built
\* node yield every node reachable from it (itself included) exactly once, depth
\* first and breadth first alike; with only_differentiable, the nodes reachable
\* along differentiable edges.
WalksYieldReachableOnce ==
    \A start \in Built, depth_first \in BOOLEAN, only_differentiable \in BOOLEAN :
        /\ YieldsOnce(walk_parents(start, depth_first, only_differentiable, FALSE),
                      Reachable({start}, "_parents", only_differentiable))
        /\ YieldsOnce(walk_children(start, depth_first, only_differentiable, FALSE),
                      Reachable({start}, "_children", only_differentiable))

\* C6, where it does hold: while every node object in a children list finished
\* Tensor.__init__ (none was left behind by a constructor that raised in the
\* parent loop), the walks yield the reachable nodes once.
WalksYieldReachableOnceOnWholeNodes ==
    (\A j \in 1 .. Len(nodes) : "_children" \in nodes[j].attrs)
        => WalksYieldReachableOnce

\* the sum over i of (1 - decay) * decay^(k - i) * c_i, on num / DecayDen^k
RECURSIVE DecayedSum(_, _)
DecayedSum(decay, costs) ==
    IF costs = <<>> THEN 0
    ELSE LET k == Len(costs)
         IN  decay * DecayedSum(decay, SubSeq(costs, 1, k - 1))
             + (DecayDen - decay) * costs[k] * Pow(DecayDen, k - 1)

\* C7: the moving average starts at 0; after the calls with reduced costs
\* c_1..c_k it is the decayed sum of the costs, i.e. avg_i = d * avg_(i-1) +
\* (1 - d) * c_i from avg_0 = 0, the last call returned it, and nothing but a call
\* changes it.
MovingAverageIsDecayedSum ==
    /\ moving_average.exp = Len(ma_costs)
    /\ moving_average.num = DecayedSum(exponential_decay, ma_costs)
    /\ ma_costs = <<>> => moving_average.num = 0
    /\ ma_costs # <<>> => ma_return = moving_average

\* C7 witness: decay 0.9 (18/20) with costs 10 then 20 returned 2.9 (1160/400),
\* after 1.0 (20/20).
MovingAverageOfTenTwenty ==
    /\ exponential_decay = 18
    /\ ma_costs = <<10, 20>>
    /\ ma_return = [num |-> 1160, exp |-> 2]
    /\ ma_return = MovingAverage(18, [num |-> DecayDen, exp |-> 1], 20)

\* C8: BatchAverageBaseline.compute_baseline fails with the precondition error
\* and returns no baseline whenever n is not greater than 1, and does not fail
\* when n > 1.
BatchAverageNeedsSeveralSamples ==
    ba_last.called =>
        IF ba_last.n > 1
        THEN ba_last.err = "none"
        ELSE ba_last.err = "ValueError" /\ ba_last.den = 0

\* C9: a constructor call that fails leaves the registry of cost tensors and the
\* children list of every node as they were.
FailedConstructionChangesNothing ==
    [][(calls' # calls /\ ~last'.ok) =>
          /\ cost_tensors' = cost_tensors
          /\ \A j \in 1 .. Len(nodes) : nodes'[j].children = nodes[j].children]_vars

\* C10: the batch_links of a built node never changes.
BatchLinksNeverChange ==
    [][\A j \in Built :
          heap'[nodes'[j].batch_links] = heap[nodes[j].batch_links]]_vars

\* the comparison called last has ended, with a result or with an error
Ended == cmp.status \notin {"none", "running"}

\* C11: every comparison called on a node (eq, ne, __eq__, __ge__, __gt__,
\* __le__, __lt__) terminates: it enters the method of the node once, runs once
\* on the numeric tensor and returns a result; it never enters the same method
\* on the same node again.
ComparisonsRunOnceAndReturn ==
    cmp.method \in TensorDict =>
        /\ cmp.entered <= 1
        /\ Ended => cmp.status = "returned" /\ cmp.numeric = 1

\* the same of the methods under @storch.deterministic, a cost node aside: its
\* comparison runs once as well, and then its result may not become a child
DecoratedComparisonsRunOnce ==
    (cmp.method \in TensorDict /\ Decorated(cmp.method)) =>
        /\ cmp.entered <= 1
        /\ Ended => /\ cmp.numeric = 1
                    /\ cmp.status = "returned" \/ is_cost(cmp.node)

\* eq never reaches the numeric tensor and never returns
EqNeverReturns ==
    cmp.method = "eq" =>
        /\ cmp.numeric = 0
        /\ cmp.status \in {"running", "RecursionError"}

====
